---- MODULE Spec2Model ----
(***************************************************************************)
(* A model of run_maps: createmap.py (GPXMapGenerator and main) and        *)
(* overlay.py (overlay_images and the module-level call).                  *)
(*                                                                         *)
(* Units.  Latitudes and longitudes are integers counting 0.005 degrees;   *)
(* every recorded point lies on an even number, so that the code's         *)
(* (min + max) / 2 is an exact integer in the same unit.  0.01 degrees is  *)
(* therefore 2.                                                            *)
(*                                                                         *)
(* Collaborators.  gpxpy.parse, prettymaps.plot, Axes.plot, plt.savefig,   *)
(* Image.open and Image.save are library calls: each either returns or     *)
(* raises, and the model takes both outcomes.  geopy's geodesic is         *)
(* replaced by a metric on the integer grid (zero exactly on equal points, *)
(* symmetric); only its use by calculate_map_bounds is modelled.           *)
(***************************************************************************)
EXTENDS Integers, Sequences, FiniteSets, TLC

VARIABLES prog, pc, args, gpxFile, gpx, coordinates, bounds, output_path,
          fig, ax, files, exc, exit_code, result, stdout, trace,
          imgFiles, alpha, map_image, track_image, blended_image, openImages

vars == <<prog, pc, args, gpxFile, gpx, coordinates, bounds, output_path,
          fig, ax, files, exc, exit_code, result, stdout, trace,
          imgFiles, alpha, map_image, track_image, blended_image, openImages>>

createmapVars == <<args, gpxFile, gpx, coordinates, bounds, output_path,
                   fig, ax, result>>

overlayVars == <<imgFiles, alpha, map_image, track_image, blended_image,
                 openImages>>

(***************************************************************************)
(* Bounds of the model.                                                    *)
(***************************************************************************)
\* calculate_map_bounds alone: latitudes 2*(-1..MaxLat), longitudes 2*(0..MaxLon)
MaxLat == 1
MaxLon == 1
MaxLen == 3
\* the pipeline: latitudes 2*(0..PipeMaxLat), longitudes -2*(0..PipeMaxLon)
PipeMaxLat == 1
PipeMaxLon == 0
PipeMaxLen == 2
\* raster widths and heights 1..MaxDim
MaxDim == 2

(***************************************************************************)
(* Values.                                                                 *)
(***************************************************************************)
None == <<>>
Some(x) == <<x>>
Get(o) == o[1]

Ok(v) == [ok |-> TRUE, val |-> <<v>>, exc |-> "none"]
Err(e) == [ok |-> FALSE, val |-> <<>>, exc |-> e]
Val(r) == r.val[1]

SeqsUpTo(S, n) == UNION {[1..k -> S] : k \in 0..n}

Range(s) == {s[i] : i \in 1..Len(s)}

Count(s, x) == Cardinality({i \in 1..Len(s) : s[i] = x})

\* the position of the first x in s (0 when there is none)
IndexOf(s, x) ==
  IF x \in Range(s) THEN CHOOSE i \in 1..Len(s) : s[i] = x /\ \A j \in 1..(i-1) : s[j] # x
  ELSE 0

Points == {<<2 * i, 2 * j>> : i \in (-1)..MaxLat, j \in 0..MaxLon}
Tracks == SeqsUpTo(Points, MaxLen)

PipePoints == {<<2 * i, (-2) * j>> : i \in 0..PipeMaxLat, j \in 0..PipeMaxLon}
PipeTracks == SeqsUpTo(PipePoints, PipeMaxLen)

\* The track/segment structures a parsed file can have over the points t, in
\* recording order: gpx.tracks is a sequence of tracks, a track a sequence of
\* segments, a segment a sequence of points.
GpxShapes(t) ==
  {<< <<t>> >>}
    \cup (IF Len(t) = 0 THEN {<<>>, << <<>> >>, << <<t, t>>, <<>> >>} ELSE {})
    \cup (IF Len(t) >= 1
            THEN {<< <<SubSeq(t, 1, 1)>>, <<SubSeq(t, 2, Len(t))>> >>,
                  << <<SubSeq(t, 1, 1), <<>>, SubSeq(t, 2, Len(t))>> >>}
            ELSE {})

GpxContents == UNION {GpxShapes(t) : t \in PipeTracks}

GpxFiles ==
  {[exists |-> FALSE, wellformed |-> FALSE, tracks |-> <<>>],
   [exists |-> TRUE, wellformed |-> FALSE, tracks |-> <<>>]}
    \cup {[exists |-> TRUE, wellformed |-> TRUE, tracks |-> g] : g \in GpxContents}

\* A path is a directory and a name; the name is its base followed by its
\* suffixes, each a token that begins with a dot.
InputPaths ==
  {[dir |-> "runs", name |-> <<"track", ".gpx">>],
   [dir |-> ".", name |-> <<"race", ".v2", ".gpx">>]}

CustomOutput == [dir |-> "out", name |-> <<"custom", ".png">>]

OverlayOutput == [dir |-> ".", name |-> <<"Blue_Ridge_Half_Marathon_overlay", ".png">>]

Dims == (1..MaxDim) \X (1..MaxDim)
Modes == {"RGB", "RGBA"}
\* blend weights in tenths; 3 is the default alpha=0.3
Alphas == {0, 3, 10}

ImageFiles ==
  {[decodable |-> FALSE, size |-> <<1, 1>>, mode |-> "RGB"]}
    \cup {[decodable |-> TRUE, size |-> d, mode |-> m] : d \in Dims, m \in Modes}

NoAxes == [basemap |-> FALSE, xlim |-> None, ylim |-> None, lines |-> <<>>,
           decorated |-> FALSE]

(***************************************************************************)
(* pathlib.                                                                *)
(***************************************************************************)
Path_stem(p) == IF Len(p.name) > 1 THEN SubSeq(p.name, 1, Len(p.name) - 1) ELSE p.name

Path_with_suffix_empty(p) == [p EXCEPT !.name = Path_stem(p)]

Path_with_name(p, name) == [p EXCEPT !.name = name]

default_map_path(p) ==
  Path_with_name(Path_with_suffix_empty(p), Path_stem(p) \o <<"_map.png">>)

default_track_path_map(p) ==
  Path_with_name(Path_with_suffix_empty(p), Path_stem(p) \o <<"_map.png">>)

default_track_path(p) ==
  Path_with_name(Path_with_suffix_empty(p), Path_stem(p) \o <<"_track.png">>)

(***************************************************************************)
(* GPXMapGenerator: the pure parts.                                        *)
(***************************************************************************)
parse_gpx_file(file) ==
  IF ~file.exists THEN Err("FileNotFoundError")
  ELSE IF ~file.wellformed THEN Err("ValueError")
  ELSE Ok(file.tracks)

RECURSIVE Flatten(_)
Flatten(ss) == IF ss = <<>> THEN <<>> ELSE Head(ss) \o Flatten(Tail(ss))

\* extract_coordinates without the emptiness check
extract_coordinates_unchecked(g) == Ok(Flatten(Flatten(g)))

extract_coordinates(g) ==
  LET cs == Flatten(Flatten(g))
  IN IF cs = <<>> THEN Err("ValueError") ELSE Ok(cs)

RECURSIVE py_min(_)
py_min(s) ==
  IF Len(s) = 1 THEN s[1]
  ELSE LET m == py_min(Tail(s)) IN IF m < s[1] THEN m ELSE s[1]

RECURSIVE py_max(_)
py_max(s) ==
  IF Len(s) = 1 THEN s[1]
  ELSE LET m == py_max(Tail(s)) IN IF m > s[1] THEN m ELSE s[1]

Lats(cs) == [i \in 1..Len(cs) |-> cs[i][1]]
Lons(cs) == [i \in 1..Len(cs) |-> cs[i][2]]

geodesic(a, b) ==
  (a[1] - b[1]) * (a[1] - b[1]) + (a[2] - b[2]) * (a[2] - b[2])

\* calculate_map_bounds with the radius taken to the last point only
calculate_map_bounds_last(cs) ==
  IF cs = <<>> THEN Err("ValueError")
  ELSE LET center == <<(py_min(Lats(cs)) + py_max(Lats(cs))) \div 2,
                       (py_min(Lons(cs)) + py_max(Lons(cs))) \div 2>>
       IN Ok(<<center, geodesic(center, cs[Len(cs)])>>)

calculate_map_bounds(cs) ==
  IF cs = <<>> THEN Err("ValueError")
  ELSE LET lats == Lats(cs)
           lons == Lons(cs)
           center == <<(py_min(lats) + py_max(lats)) \div 2,
                       (py_min(lons) + py_max(lons)) \div 2>>
           radius == py_max([i \in 1..Len(cs) |-> geodesic(center, cs[i])])
       IN Ok(<<center, radius>>)

\* 0.01 degrees
ViewportHalfWidth == 2

\* the fallback window with latitude and longitude exchanged
fallback_viewport_swapped(center) ==
  [xlim |-> <<center[1] - ViewportHalfWidth, center[1] + ViewportHalfWidth>>,
   ylim |-> <<center[2] - ViewportHalfWidth, center[2] + ViewportHalfWidth>>]

fallback_viewport(center) ==
  [xlim |-> <<center[2] - ViewportHalfWidth, center[2] + ViewportHalfWidth>>,
   ylim |-> <<center[1] - ViewportHalfWidth, center[1] + ViewportHalfWidth>>]

\* Axes.plot(lons, lats, ...)
Line(cs, zorder) == [x |-> Lons(cs), y |-> Lats(cs), zorder |-> zorder]

\* main's handlers, with the catch-all returning success
main_exit_code_swallow(e) ==
  IF e \in {"FileNotFoundError", "ValueError"} THEN 1 ELSE 0

main_exit_code(e) ==
  IF e \in {"FileNotFoundError", "ValueError"} THEN 1 ELSE 1

main_message(e) ==
  IF e \in {"FileNotFoundError", "ValueError"} THEN "Error" ELSE "Unexpected error"

WriteFile(fs, p, st) == {f \in fs : f.path # p} \cup {[path |-> p, state |-> st]}

(***************************************************************************)
(* PIL.                                                                    *)
(***************************************************************************)
Image_open_convert(file) ==
  IF ~file.decodable THEN Err("UnidentifiedImageError")
  ELSE Ok([size |-> file.size, mode |-> "RGBA"])

\* resize that keeps the image's own size
Image_resize_noop(im, size) == im

Image_resize(im, size) == [im EXCEPT !.size = size]

Image_blend(im1, im2) ==
  IF im1.size # im2.size \/ im1.mode # im2.mode THEN Err("ValueError")
  ELSE Ok([size |-> im1.size, mode |-> im1.mode])

(***************************************************************************)
(* Initial states.                                                         *)
(***************************************************************************)
IdleCreatemap ==
  /\ args = [gpx_file_path |-> [dir |-> ".", name |-> <<"-">>], no_overlay |-> FALSE,
             track_only |-> FALSE, output |-> None]
  /\ gpxFile = [exists |-> FALSE, wellformed |-> FALSE, tracks |-> <<>>]
  /\ gpx = None
  /\ bounds = None
  /\ output_path = None
  /\ fig = "none"
  /\ ax = NoAxes
  /\ result = None

IdleOverlay ==
  /\ imgFiles = [map |-> [decodable |-> FALSE, size |-> <<1, 1>>, mode |-> "RGB"],
                 track |-> [decodable |-> FALSE, size |-> <<1, 1>>, mode |-> "RGB"]]
  /\ alpha = 3
  /\ map_image = None
  /\ track_image = None
  /\ blended_image = None
  /\ openImages = {}

Common ==
  /\ files = {}
  /\ exc = "none"
  /\ exit_code = None
  /\ stdout = <<>>
  /\ trace = <<>>

InitCreatemap ==
  /\ prog = "createmap"
  /\ pc = "main"
  /\ args \in [gpx_file_path : InputPaths, no_overlay : BOOLEAN,
               track_only : BOOLEAN, output : {None, Some(CustomOutput)}]
  /\ gpxFile \in GpxFiles
  /\ gpx = None
  /\ coordinates = <<>>
  /\ bounds = None
  /\ output_path = None
  /\ fig = "none"
  /\ ax = NoAxes
  /\ result = None
  /\ IdleOverlay
  /\ Common

InitOverlay ==
  /\ prog = "overlay"
  /\ pc = "o_open_map"
  /\ imgFiles \in [map : ImageFiles, track : ImageFiles]
  /\ alpha \in Alphas
  /\ map_image = None
  /\ track_image = None
  /\ blended_image = None
  /\ openImages = {}
  /\ coordinates = <<>>
  /\ IdleCreatemap
  /\ Common

Init == InitCreatemap \/ InitOverlay

(***************************************************************************)
(* createmap.py: main, create_map_from_gpx, create_track_only.             *)
(***************************************************************************)
Log(e) == trace' = Append(trace, e)

\* an exception leaves the generator's method and reaches main's handlers
Raise(e) == /\ exc' = e
            /\ pc' = "main_except"

\* main: if args.track_only ... else ...
MainDispatch ==
  /\ pc = "main"
  /\ pc' = IF args.track_only THEN "t_parse" ELSE "m_parse"
  /\ UNCHANGED <<prog, createmapVars, files, exc, exit_code, stdout, trace, overlayVars>>

\* gpx = self.parse_gpx_file(gpx_file_path)
ParseGpxFile ==
  /\ pc \in {"m_parse", "t_parse"}
  /\ LET r == parse_gpx_file(gpxFile)
     IN IF r.ok
          THEN /\ gpx' = Some(Val(r))
               /\ pc' = IF pc = "m_parse" THEN "m_extract" ELSE "t_extract"
               /\ exc' = exc
          ELSE /\ Raise(r.exc)
               /\ gpx' = gpx
  /\ UNCHANGED <<prog, args, gpxFile, coordinates, bounds, output_path, fig, ax, result,
                 files, exit_code, stdout, trace, overlayVars>>

\* coordinates = self.extract_coordinates(gpx)
ExtractCoordinates ==
  /\ pc \in {"m_extract", "t_extract"}
  /\ LET r == extract_coordinates(Get(gpx))
     IN IF r.ok
          THEN /\ coordinates' = Val(r)
               /\ pc' = IF pc = "m_extract" THEN "m_bounds" ELSE "t_subplots"
               /\ exc' = exc
          ELSE /\ Raise(r.exc)
               /\ coordinates' = coordinates
  /\ UNCHANGED <<prog, args, gpxFile, gpx, bounds, output_path, fig, ax, result,
                 files, exit_code, stdout, trace, overlayVars>>

\* center, radius = self.calculate_map_bounds(coordinates)
CalculateMapBounds ==
  /\ pc = "m_bounds"
  /\ Log("calculate_map_bounds")
  /\ LET r == calculate_map_bounds(coordinates)
     IN IF r.ok
          THEN /\ bounds' = Some(Val(r))
               /\ pc' = "m_path"
               /\ exc' = exc
          ELSE /\ Raise(r.exc)
               /\ bounds' = bounds
  /\ UNCHANGED <<prog, args, gpxFile, gpx, coordinates, output_path, fig, ax, result,
                 files, exit_code, stdout, overlayVars>>

\* if output_path is None: output_path = <stem>_map.png
MapOutputPath ==
  /\ pc = "m_path"
  /\ output_path' = IF args.output = None
                      THEN Some(default_map_path(args.gpx_file_path))
                      ELSE args.output
  /\ pc' = "m_subplots"
  /\ UNCHANGED <<prog, args, gpxFile, gpx, coordinates, bounds, fig, ax, result,
                 files, exc, exit_code, stdout, trace, overlayVars>>

\* fig, ax = plt.subplots(figsize=..., dpi=...)
Subplots ==
  /\ pc \in {"m_subplots", "t_subplots"}
  /\ fig' = "open"
  /\ ax' = NoAxes
  /\ Log("subplots")
  /\ pc' = IF pc = "m_subplots" THEN "m_render" ELSE "t_plot"
  /\ UNCHANGED <<prog, args, gpxFile, gpx, coordinates, bounds, output_path, result,
                 files, exc, exit_code, stdout, overlayVars>>

\* layers = prettymaps.plot(ax=ax, query=..., radius=radius) returns
PrettymapsPlotOk ==
  /\ pc = "m_render"
  /\ ax' = [ax EXCEPT !.basemap = TRUE]
  /\ Log("prettymaps.plot:ok")
  /\ pc' = IF ~args.no_overlay THEN "m_try_overlay" ELSE "m_savefig"
  /\ UNCHANGED <<prog, args, gpxFile, gpx, coordinates, bounds, output_path, fig, result,
                 files, exc, exit_code, stdout, overlayVars>>

\* prettymaps.plot raises: caught by "except Exception"
PrettymapsPlotRaise ==
  /\ pc = "m_render"
  /\ Log("prettymaps.plot:raise")
  /\ pc' = "m_except"
  /\ UNCHANGED <<prog, createmapVars, files, exc, exit_code, stdout, overlayVars>>

\* overlay_track: "if not coordinates: return", else ax.plot(..., zorder=10)
overlay_track(a, cs) ==
  IF cs = <<>> THEN a ELSE [a EXCEPT !.lines = Append(@, Line(cs, 10))]

\* self.overlay_track(ax, coordinates) inside the try block, returning
TryOverlayOk ==
  /\ pc = "m_try_overlay"
  /\ ax' = overlay_track(ax, coordinates)
  /\ Log("ax.plot:ok")
  /\ pc' = "m_savefig"
  /\ UNCHANGED <<prog, args, gpxFile, gpx, coordinates, bounds, output_path, fig, result,
                 files, exc, exit_code, stdout, overlayVars>>

\* the same call raising: it is inside the try block, so the same handler runs
TryOverlayRaise ==
  /\ pc = "m_try_overlay"
  /\ Log("ax.plot:raise")
  /\ pc' = "m_except"
  /\ UNCHANGED <<prog, createmapVars, files, exc, exit_code, stdout, overlayVars>>

\* the handler with the window set but the track never drawn
ExceptFallback_nodraw ==
  /\ pc = "m_except"
  /\ stdout' = Append(stdout, "Warning")
  /\ LET v == fallback_viewport(Get(bounds)[1])
     IN ax' = [ax EXCEPT !.xlim = Some(v.xlim), !.ylim = Some(v.ylim)]
  /\ Log("set_lim")
  /\ pc' = "m_savefig"
  /\ UNCHANGED <<prog, args, gpxFile, gpx, coordinates, bounds, output_path, fig, result,
                 files, exc, exit_code, overlayVars>>

\* except Exception as e: print the warning, ax.set_xlim, ax.set_ylim
ExceptFallback ==
  /\ pc = "m_except"
  /\ stdout' = Append(stdout, "Warning")
  /\ LET v == fallback_viewport(Get(bounds)[1])
     IN ax' = [ax EXCEPT !.xlim = Some(v.xlim), !.ylim = Some(v.ylim)]
  /\ Log("set_lim")
  /\ pc' = IF ~args.no_overlay THEN "m_fb_overlay" ELSE "m_savefig"
  /\ UNCHANGED <<prog, args, gpxFile, gpx, coordinates, bounds, output_path, fig, result,
                 files, exc, exit_code, overlayVars>>

\* self.overlay_track(ax, coordinates) inside the handler, returning
FallbackOverlayOk ==
  /\ pc = "m_fb_overlay"
  /\ ax' = overlay_track(ax, coordinates)
  /\ Log("ax.plot:ok")
  /\ pc' = "m_savefig"
  /\ UNCHANGED <<prog, args, gpxFile, gpx, coordinates, bounds, output_path, fig, result,
                 files, exc, exit_code, stdout, overlayVars>>

\* the same call raising: nothing catches it before main
FallbackOverlayRaise ==
  /\ pc = "m_fb_overlay"
  /\ Log("ax.plot:raise")
  /\ Raise("Exception")
  /\ UNCHANGED <<prog, createmapVars, files, exit_code, stdout, overlayVars>>

\* create_track_only: lats, lons = zip(*coordinates); ax.plot(lons, lats, ...);
\* set_aspect, grid, labels, title
TrackOnlyPlotOk ==
  /\ pc = "t_plot"
  /\ IF coordinates = <<>>
       THEN /\ Raise("ValueError")
            /\ UNCHANGED <<ax, trace>>
       ELSE /\ ax' = [ax EXCEPT !.lines = Append(@, Line(coordinates, 2)),
                                !.decorated = TRUE]
            /\ Log("ax.plot:ok")
            /\ pc' = "t_path"
            /\ exc' = exc
  /\ UNCHANGED <<prog, args, gpxFile, gpx, coordinates, bounds, output_path, fig, result,
                 files, exit_code, stdout, overlayVars>>

TrackOnlyPlotRaise ==
  /\ pc = "t_plot"
  /\ Log("ax.plot:raise")
  /\ Raise("Exception")
  /\ UNCHANGED <<prog, createmapVars, files, exit_code, stdout, overlayVars>>

\* if output_path is None: output_path = <stem>_track.png
TrackOutputPath ==
  /\ pc = "t_path"
  /\ output_path' = IF args.output = None
                      THEN Some(default_track_path(args.gpx_file_path))
                      ELSE args.output
  /\ pc' = "t_savefig"
  /\ UNCHANGED <<prog, args, gpxFile, gpx, coordinates, bounds, fig, ax, result,
                 files, exc, exit_code, stdout, trace, overlayVars>>

\* plt.savefig(output_path, ...) returns: the file is complete
SavefigOk ==
  /\ pc \in {"m_savefig", "t_savefig"}
  /\ files' = WriteFile(files, Get(output_path), "complete")
  /\ Log("savefig:ok")
  /\ pc' = IF pc = "m_savefig" THEN "m_close" ELSE "t_close"
  /\ UNCHANGED <<prog, createmapVars, exc, exit_code, stdout, overlayVars>>

\* plt.savefig raises before the output path is opened
SavefigRaiseEarly ==
  /\ pc \in {"m_savefig", "t_savefig"}
  /\ Log("savefig:raise")
  /\ Raise("Exception")
  /\ UNCHANGED <<prog, createmapVars, files, exit_code, stdout, overlayVars>>

\* plt.savefig raises while writing: it writes output_path itself, in place
SavefigRaisePartial ==
  /\ pc \in {"m_savefig", "t_savefig"}
  /\ files' = WriteFile(files, Get(output_path), "partial")
  /\ Log("savefig:raise")
  /\ Raise("Exception")
  /\ UNCHANGED <<prog, createmapVars, exit_code, stdout, overlayVars>>

\* plt.close(fig); return output_path
CloseFigReturn ==
  /\ pc \in {"m_close", "t_close"}
  /\ fig' = "closed"
  /\ Log("close")
  /\ result' = output_path
  /\ pc' = "main_print"
  /\ UNCHANGED <<prog, args, gpxFile, gpx, coordinates, bounds, output_path, ax,
                 files, exc, exit_code, stdout, overlayVars>>

\* main: print(... saved to ...); return 0
MainReturn ==
  /\ pc = "main_print"
  /\ stdout' = Append(stdout, "saved")
  /\ exit_code' = Some(0)
  /\ pc' = "done"
  /\ UNCHANGED <<prog, createmapVars, files, exc, trace, overlayVars>>

\* main: except (FileNotFoundError, ValueError) ... except Exception ...: return 1
MainExcept ==
  /\ pc = "main_except"
  /\ stdout' = Append(stdout, main_message(exc))
  /\ exit_code' = Some(main_exit_code(exc))
  /\ pc' = "done"
  /\ UNCHANGED <<prog, createmapVars, files, exc, trace, overlayVars>>

NextCreatemap ==
  \/ MainDispatch
  \/ ParseGpxFile
  \/ ExtractCoordinates
  \/ CalculateMapBounds
  \/ MapOutputPath
  \/ Subplots
  \/ PrettymapsPlotOk
  \/ PrettymapsPlotRaise
  \/ TryOverlayOk
  \/ TryOverlayRaise
  \/ ExceptFallback
  \/ FallbackOverlayOk
  \/ FallbackOverlayRaise
  \/ TrackOnlyPlotOk
  \/ TrackOnlyPlotRaise
  \/ TrackOutputPath
  \/ SavefigOk
  \/ SavefigRaiseEarly
  \/ SavefigRaisePartial
  \/ CloseFigReturn
  \/ MainReturn
  \/ MainExcept

(***************************************************************************)
(* overlay.py: overlay_images, called at module level.  An exception is    *)
(* caught nowhere: the interpreter ends with status 1.                     *)
(***************************************************************************)
Uncaught(e) == /\ exc' = e
               /\ exit_code' = Some(1)
               /\ pc' = "done"

\* map_image = Image.open(map_image_path).convert("RGBA")
OpenMapImage ==
  /\ pc = "o_open_map"
  /\ LET r == Image_open_convert(imgFiles.map)
     IN IF r.ok
          THEN /\ map_image' = Some(Val(r))
               /\ openImages' = openImages \cup {"map_image"}
               /\ pc' = "o_open_track"
               /\ UNCHANGED <<exc, exit_code>>
          ELSE /\ Uncaught(r.exc)
               /\ UNCHANGED <<map_image, openImages>>
  /\ UNCHANGED <<prog, createmapVars, files, stdout, trace, imgFiles, alpha,
                 track_image, blended_image>>

\* track_image = Image.open(track_image_path).convert("RGBA")
OpenTrackImage ==
  /\ pc = "o_open_track"
  /\ LET r == Image_open_convert(imgFiles.track)
     IN IF r.ok
          THEN /\ track_image' = Some(Val(r))
               /\ openImages' = openImages \cup {"track_image"}
               /\ pc' = "o_resize"
               /\ UNCHANGED <<exc, exit_code>>
          ELSE /\ Uncaught(r.exc)
               /\ UNCHANGED <<track_image, openImages>>
  /\ UNCHANGED <<prog, createmapVars, files, stdout, trace, imgFiles, alpha,
                 map_image, blended_image>>

\* track_image = track_image.resize(map_image.size, Image.LANCZOS)
ResizeTrackImage ==
  /\ pc = "o_resize"
  /\ track_image' = Some(Image_resize(Get(track_image), Get(map_image).size))
  /\ openImages' = openImages \cup {"resized"}
  /\ pc' = "o_blend"
  /\ UNCHANGED <<prog, createmapVars, files, exc, exit_code, stdout, trace, imgFiles,
                 alpha, map_image, blended_image>>

\* blended_image = Image.blend(map_image, track_image, alpha=alpha)
BlendImages ==
  /\ pc = "o_blend"
  /\ LET r == Image_blend(Get(map_image), Get(track_image))
     IN IF r.ok
          THEN /\ blended_image' = Some(Val(r))
               /\ openImages' = openImages \cup {"blended_image"}
               /\ pc' = "o_save"
               /\ UNCHANGED <<exc, exit_code>>
          ELSE /\ Uncaught(r.exc)
               /\ UNCHANGED <<blended_image, openImages>>
  /\ UNCHANGED <<prog, createmapVars, files, stdout, trace, imgFiles, alpha,
                 map_image, track_image>>

\* blended_image.save(output_image_path) returns
SaveBlendedOk ==
  /\ pc = "o_save"
  /\ files' = WriteFile(files, OverlayOutput, "complete")
  /\ Log("save:ok")
  /\ exit_code' = Some(0)
  /\ pc' = "done"
  /\ UNCHANGED <<prog, createmapVars, exc, stdout, overlayVars>>

\* save raises before the output path is opened
SaveBlendedRaiseEarly ==
  /\ pc = "o_save"
  /\ Log("save:raise")
  /\ Uncaught("Exception")
  /\ UNCHANGED <<prog, createmapVars, files, stdout, overlayVars>>

\* save raises while writing: it writes output_image_path itself, in place
SaveBlendedRaisePartial ==
  /\ pc = "o_save"
  /\ files' = WriteFile(files, OverlayOutput, "partial")
  /\ Log("save:raise")
  /\ Uncaught("Exception")
  /\ UNCHANGED <<prog, createmapVars, stdout, overlayVars>>

NextOverlay ==
  \/ OpenMapImage
  \/ OpenTrackImage
  \/ ResizeTrackImage
  \/ BlendImages
  \/ SaveBlendedOk
  \/ SaveBlendedRaiseEarly
  \/ SaveBlendedRaisePartial

Next == NextCreatemap \/ NextOverlay

Spec == Init /\ [][Next]_vars

(***************************************************************************)
(* calculate_map_bounds applied to every bounded sequence of points.       *)
(***************************************************************************)
InitBounds ==
  /\ prog = "bounds"
  /\ pc = "b_call"
  /\ coordinates \in Tracks
  /\ IdleCreatemap
  /\ IdleOverlay
  /\ Common

BoundsCall ==
  /\ pc = "b_call"
  /\ LET r == calculate_map_bounds(coordinates)
     IN IF r.ok
          THEN /\ bounds' = Some(Val(r))
               /\ exc' = exc
          ELSE /\ bounds' = bounds
               /\ exc' = r.exc
  /\ pc' = "done"
  /\ UNCHANGED <<prog, args, gpxFile, gpx, coordinates, output_path, fig, ax, result,
                 files, exit_code, stdout, trace, overlayVars>>

NextBounds == BoundsCall

SpecBounds == InitBounds /\ [][NextBounds]_vars

(***************************************************************************)
(* Properties.                                                             *)
(***************************************************************************)
Done == pc = "done"

InMapMode == prog = "createmap" /\ ~args.track_only

RenderFailed == "prettymaps.plot:raise" \in Range(trace)

LaterStepRaised == "ax.plot:raise" \in Range(trace) \/ "savefig:raise" \in Range(trace)

OutputWritten == output_path # None /\ files = {[path |-> Get(output_path), state |-> "complete"]}

\* the window of 0.01 degrees on each side of the center, whatever the radius
WindowAroundCenter ==
  LET c == Get(bounds)[1]
  IN /\ ax.xlim = Some(<<c[2] - ViewportHalfWidth, c[2] + ViewportHalfWidth>>)
     /\ ax.ylim = Some(<<c[1] - ViewportHalfWidth, c[1] + ViewportHalfWidth>>)

\* C1 as stated: whenever prettymaps.plot fails, the run ends with the window
\* of 0.01 degrees around the center, the output file written and exit code 0.
C1_AsStated ==
  (InMapMode /\ RenderFailed /\ Done) =>
    /\ WindowAroundCenter
    /\ OutputWritten
    /\ exit_code = Some(0)

\* C1 as amended: a failure of prettymaps.plot is absorbed (a warning is
\* printed, the window of 0.01 degrees around the center is set whatever the
\* radius, and the run goes on to the track drawing and the save); the output
\* file is written and main returns 0 unless the later track drawing or
\* savefig itself raises, and then main returns 1.
C1_RenderFailureAbsorbed ==
  (InMapMode /\ RenderFailed /\ pc # "m_except") =>
    /\ WindowAroundCenter
    /\ "Warning" \in Range(stdout)
    /\ (exc = "none" <=> ~LaterStepRaised)
    /\ (Done /\ ~LaterStepRaised) => (OutputWritten /\ exit_code = Some(0))
    /\ (Done /\ LaterStepRaised) => exit_code = Some(1)

C1_Witness ==
  /\ InMapMode /\ RenderFailed /\ Done
  /\ OutputWritten
  /\ exit_code = Some(0)
  /\ Get(bounds)[2] > 0

NoTrackPoints(f) == \A i \in DOMAIN f.tracks : \A j \in DOMAIN f.tracks[i] : f.tracks[i][j] = <<>>

\* C2: a run of main ends with exit code 0 exactly when the selected
\* generation operation returned an output path without raising; a missing
\* file, a parse failure, an empty track or any other exception gives 1.
C2_ExitCodeIffReturned ==
  (prog = "createmap" /\ Done) =>
    /\ exit_code \in {Some(0), Some(1)}
    /\ (exit_code = Some(0)) <=> (result # None /\ exc = "none")
    /\ (result # None) => (result = output_path)
    /\ (~gpxFile.exists \/ ~gpxFile.wellformed \/ NoTrackPoints(gpxFile)) => exit_code = Some(1)
    /\ (exc # "none") => exit_code = Some(1)

C2_Witness ==
  /\ prog = "createmap" /\ Done
  /\ exc = "Exception"
  /\ result = None
  /\ exit_code = Some(1)

\* C3: no partial output file is left after a failure; a run on a nonexistent
\* input file ends with exit code 1 and no output file.
C3_NoPartialOutput ==
  (Done /\ exit_code = Some(1)) =>
    /\ \A f \in files : f.state # "partial"
    /\ (prog = "createmap" /\ ~gpxFile.exists) => files = {}

\* C4: every figure and image an operation acquires is released before the
\* operation ends, on every exit path.
C4_ResourcesReleased ==
  Done => (fig # "open" /\ openImages = {})

SetMin(S) == CHOOSE x \in S : \A y \in S : x <= y
SetMax(S) == CHOOSE x \in S : \A y \in S : y <= x

\* C5: for a non-empty sequence of points, the center is the midpoint of the
\* bounding box of the set of points and the radius the largest distance from
\* that center to a point of the set (so neither depends on order or
\* multiplicity); a single point P gives center P and radius 0.
C5_BoundsOfPointSet ==
  (prog = "bounds" /\ Done /\ coordinates # <<>>) =>
    LET S == Range(coordinates)
        c == <<(SetMin({q[1] : q \in S}) + SetMax({q[1] : q \in S})) \div 2,
               (SetMin({q[2] : q \in S}) + SetMax({q[2] : q \in S})) \div 2>>
        r == SetMax({geodesic(c, q) : q \in S})
    IN /\ bounds = Some(<<c, r>>)
       /\ 2 * c[1] = SetMin({q[1] : q \in S}) + SetMax({q[1] : q \in S})
       /\ 2 * c[2] = SetMin({q[2] : q \in S}) + SetMax({q[2] : q \in S})
       /\ (Cardinality(S) = 1) => bounds = Some(<<coordinates[1], 0>>)

C5_Witness ==
  /\ prog = "bounds" /\ Done
  /\ Len(coordinates) = 3
  /\ Cardinality(Range(coordinates)) = 2
  /\ bounds # None
  /\ Get(bounds)[2] > 0

EmptyTrack ==
  /\ prog = "createmap"
  /\ gpxFile.exists /\ gpxFile.wellformed
  /\ NoTrackPoints(gpxFile)

\* C6: calculate_map_bounds fails on the empty sequence, and a parsed file
\* with no track points fails the run (exit code 1) before bounds are
\* computed, a canvas is created, the basemap renderer is called or anything
\* is written, in map mode and in track-only mode.
C6_EmptyTrackIsError ==
  /\ ~calculate_map_bounds(<<>>).ok
  /\ EmptyTrack =>
       /\ trace = <<>>
       /\ bounds = None
       /\ fig = "none"
       /\ files = {}
       /\ exit_code # Some(0)
       /\ Done => (exit_code = Some(1) /\ exc = "ValueError")

C6_Witness ==
  /\ EmptyTrack /\ Done
  /\ gpxFile.tracks # <<>>
  /\ args.track_only
  /\ exit_code = Some(1)

ValidTrackOnly ==
  /\ prog = "createmap"
  /\ args.track_only
  /\ gpxFile.exists /\ gpxFile.wellformed
  /\ ~NoTrackPoints(gpxFile)

\* <input-stem>_track.png next to the input, or the --output path
ExpectedTrackPath ==
  LET p == args.gpx_file_path
  IN IF args.output = None
       THEN [dir |-> p.dir, name |-> Append(SubSeq(p.name, 1, Len(p.name) - 1), "_track.png")]
       ELSE Get(args.output)

NoBasemapNoBounds ==
  /\ "prettymaps.plot:ok" \notin Range(trace)
  /\ "prettymaps.plot:raise" \notin Range(trace)
  /\ "calculate_map_bounds" \notin Range(trace)
  /\ bounds = None
  /\ ~ax.basemap

BothDecodable == prog = "overlay" /\ imgFiles.map.decodable /\ imgFiles.track.decodable

\* C8: for decodable inputs and any weight, the blend is never refused and
\* the raster blended and saved has the map raster's width and height,
\* whatever the track raster's size.
C8_BlendHasMapSize ==
  BothDecodable =>
    /\ exc # "ValueError"
    /\ (blended_image # None) => Get(blended_image).size = imgFiles.map.size
    /\ ("save:ok" \in Range(trace)) =>
         (blended_image # None /\ Get(blended_image).size = imgFiles.map.size)

C8_Witness ==
  /\ BothDecodable /\ Done
  /\ "save:ok" \in Range(trace)
  /\ imgFiles.track.size[1] * imgFiles.map.size[2] # imgFiles.track.size[2] * imgFiles.map.size[1]
  /\ Get(blended_image).size = imgFiles.map.size

\* the rendering mode: degraded once the fallback window has been set
Mode == IF ax.xlim = None THEN "normal" ELSE "degraded"

\* C9: the run enters the degraded-viewport mode only when prettymaps.plot
\* itself has failed, not for any other failure (such as the track drawing).
C9_DegradedOnlyOnRenderFailure ==
  (InMapMode /\ Mode = "degraded") => RenderFailed

\* the run starts in the normal mode, and the degraded mode is never left
ModeStartsNormal == (pc \in {"main", "m_parse", "m_extract", "m_bounds", "m_path", "m_subplots", "m_render"}) => Mode = "normal"

ModeNeverRecovers == [][Mode = "degraded" => Mode' = "degraded"]_vars

RenderPos ==
  IF "prettymaps.plot:ok" \in Range(trace)
    THEN IndexOf(trace, "prettymaps.plot:ok")
    ELSE IndexOf(trace, "prettymaps.plot:raise")

\* C10: in a run of create_map_from_gpx that writes its output, the track is
\* drawn exactly when overlay is enabled, on the normal and the fallback path
\* alike; it is then drawn once, after the basemap render attempt has
\* finished and before the save, above the basemap.
C10_TrackDrawnIffOverlay ==
  (InMapMode /\ "savefig:ok" \in Range(trace)) =>
    /\ Len(ax.lines) = (IF args.no_overlay THEN 0 ELSE 1)
    /\ Count(trace, "ax.plot:ok") = Len(ax.lines)
    /\ RenderPos > 0
    /\ ~args.no_overlay =>
         /\ RenderPos < IndexOf(trace, "ax.plot:ok")
         /\ IndexOf(trace, "ax.plot:ok") < IndexOf(trace, "savefig:ok")
         /\ ax.lines[1] = [x |-> Lons(coordinates), y |-> Lats(coordinates), zorder |-> 10]

C10_Witness ==
  /\ InMapMode /\ Done
  /\ "savefig:ok" \in Range(trace)
  /\ RenderFailed
  /\ ~args.no_overlay
  /\ Len(ax.lines) = 1

====
